---- MODULE Spec2Model ----
(***************************************************************************)
(* NodeSerialConnection (src/api/src/lib/nodeSerialConnection.ts): the     *)
(* serial transport of a Meshtastic device.  The module models             *)
(*   - the connection lifecycle: connect, disconnect, reconnect, the       *)
(*     open/close callbacks of the SerialPort handle, its 'error' and      *)
(*     'close' events, the 100 ms debounce timer and the heartbeat timer;  *)
(*   - writeToRadio: framing, the write callback and the drain callback;   *)
(*   - handleIncomingData: the receive buffer and the frame parser.        *)
(* JavaScript runs one callback at a time, so every action below is one    *)
(* synchronous run of a method or callback of the class.                   *)
(***************************************************************************)
EXTENDS Integers, Sequences, FiniteSets, TLC

(***************************************************************************)
(* Bounds of the model.                                                    *)
(***************************************************************************)
\* connect() calls, i.e. SerialPort handles the instance creates
MaxPorts == 2
\* disconnect() calls (a reconnect() counts as one)
MaxDisconnects == 2
\* 'error' / 'close' events the handles emit on their own
MaxSignals == 2
\* heartbeat timer firings
MaxTicks == 1
\* writeToRadio calls
MaxWrites == 2
\* connect() calls, disconnect() calls and handle events of a run with writes
MaxWritePorts == 1
MaxWriteDisconnects == 1
MaxWriteSignals == 1

(***************************************************************************)
(* Program constants.                                                      *)
(***************************************************************************)
SERIAL_MAGIC_BYTE1 == 148
SERIAL_MAGIC_BYTE2 == 195
\* the receive buffer is cleared when it holds more than this many bytes
MaxBuffer == 4096

Ports == 1..MaxPorts

VARIABLES
    \* ---- fields of NodeSerialConnection / MeshDevice
    deviceStatus,           \* MeshDevice.deviceStatus, the last status reported
    port,                   \* this.port: 0 is null, else the handle's number
    disconnectPending,      \* this.disconnectPending
    intentionalDisconnect,  \* this.intentionalDisconnect
    heartbeatInterval,      \* this.heartbeatInterval # null
    receiveBuffer,          \* this.receiveBuffer
    \* ---- the SerialPort handles and the callbacks in flight
    portState,              \* per handle: none, opening, failed, open, lost,
                            \*   closing, closed
    reconnectCb,            \* handles whose close callback resumes a reconnect()
    timers,                 \* debounce timers armed and not yet fired
    writes,                 \* writeToRadio calls, in call order
    \* ---- what the external layer observes
    notifications,          \* the statuses passed to updateDeviceStatus, in order
    heartbeats,             \* invocations of the keep-alive action heartbeat()
    delivered,              \* payloads passed to handleFromRadio, in order
    \* ---- bookkeeping of the environment
    lastApi,                \* the last connect() / disconnect() call
    confirmed,              \* losses the debounce reported since the last Connected
    budget,                 \* calls and events the environment may still make
    peer,                   \* what the peer sends: its payloads and the bytes,
                            \*   and the payloads handleFromRadio throws on
    pos,                    \* how many of the bytes have been received
    feeds,                  \* 'data' events so far
    clearedAt               \* pos after the last overflow clear, -1 if none

lifeVars == <<deviceStatus, port, disconnectPending, intentionalDisconnect,
              heartbeatInterval, portState, reconnectCb, timers, writes,
              notifications, heartbeats, lastApi, confirmed, budget>>
dataVars == <<receiveBuffer, delivered, peer, pos, feeds, clearedAt>>
vars == <<lifeVars, dataVars>>

(***************************************************************************)
(* The SerialPort handle, as the class uses it.                            *)
(***************************************************************************)
\* port?.isOpen: false for null, for a handle that is opening, that failed to
\* open, that is closing or closed, and for one whose link is lost
isOpen(p) == p # 0 /\ portState[p] = "open"

\* handles created so far; connect() creates the next one
nPorts == Cardinality({p \in Ports : portState[p] # "none"})

\* MeshDevice.updateDeviceStatus, the status report to the external layer:
\* every call the class makes is one notification
updateDeviceStatus(s) ==
    /\ deviceStatus' = s
    /\ notifications' = Append(notifications, s)

\* lastApi before any call
NoApi == [op |-> "none", statusAt |-> "Disconnected", at |-> 0, inFlight |-> 0]

(***************************************************************************)
(* writeToRadio's framing: [0x94, 0xc3, 0x00, length, ...data].  The       *)
(* frame is a byte buffer, so the length byte keeps data.length modulo 256.*)
(***************************************************************************)
\* a framing that writes the length into the reserved byte
EncodeFrameSwapped(data) ==
    <<SERIAL_MAGIC_BYTE1, SERIAL_MAGIC_BYTE2, Len(data) % 256, 0>> \o data

EncodeFrame(data) ==
    <<SERIAL_MAGIC_BYTE1, SERIAL_MAGIC_BYTE2, 0, Len(data) % 256>> \o data

\* the longest payload whose length fits the length byte
MaxEncodable == 255

\* payloads the external layer writes: a short one and one a byte too long
ShortPayload == <<122, 1>>
Oversize == [i \in 1..(MaxEncodable + 1) |-> 1]
WritePayloads == {ShortPayload, Oversize}

(***************************************************************************)
(* connect(): lines 44-106, up to and including port.open().  The body is  *)
(* parameterised by the notifications and handles as they stand when it    *)
(* runs, because reconnect() runs it right after disconnect() resolves.    *)
(***************************************************************************)
connectBody(notifs, statusNow, states) ==
    LET p == nPorts + 1 IN
    /\ intentionalDisconnect' = FALSE
    /\ disconnectPending' = FALSE
    /\ deviceStatus' = "Connecting"
    /\ notifications' = Append(notifs, "Connecting")
    /\ port' = p
    /\ portState' = [states EXCEPT ![p] = "opening"]
    /\ lastApi' = [op |-> "connect", statusAt |-> statusNow,
                   at |-> Len(notifs), inFlight |-> 0]

connect ==
    /\ budget.connects > Cardinality(reconnectCb)
    /\ budget' = [budget EXCEPT !.connects = @ - 1]
    /\ connectBody(notifications, deviceStatus, portState)
    /\ UNCHANGED <<heartbeatInterval, reconnectCb, timers, writes, heartbeats,
                   confirmed, dataVars>>

(***************************************************************************)
(* The open callback, lines 84-104.                                        *)
(***************************************************************************)
openCallback(p, ok) ==
    /\ portState[p] = "opening"
    /\ IF ok
         THEN /\ portState' = [portState EXCEPT ![p] = "open"]
              /\ updateDeviceStatus("Connected")
              /\ heartbeatInterval' = TRUE          \* startHeartbeat()
              /\ confirmed' = 0
         ELSE /\ portState' = [portState EXCEPT ![p] = "failed"]
              /\ updateDeviceStatus("Disconnected")
              /\ UNCHANGED <<heartbeatInterval, confirmed>>
    /\ UNCHANGED <<port, disconnectPending, intentionalDisconnect, reconnectCb,
                   timers, writes, heartbeats, lastApi, budget, dataVars>>

(***************************************************************************)
(* disconnect(), lines 111-137, and reconnect(), lines 172-175.  complete() *)
(* belongs to the external layer and changes nothing modelled here.        *)
(* reconnect() awaits disconnect() and then calls connect(): when the      *)
(* handle is not open disconnect() resolves at once and connect() follows  *)
(* in the same turn; otherwise connect() follows the close callback.       *)
(***************************************************************************)
disconnectCall(re) ==
    /\ budget.disconnects > 0
    /\ re => budget.connects > Cardinality(reconnectCb)
    /\ budget' = [budget EXCEPT !.disconnects = @ - 1,
                                !.connects = IF re /\ ~isOpen(port) THEN @ - 1 ELSE @]
    /\ heartbeatInterval' = FALSE                   \* stopHeartbeat()
    /\ IF isOpen(port)
         THEN /\ portState' = [portState EXCEPT ![port] = "closing"]
              /\ reconnectCb' = IF re THEN reconnectCb \cup {port} ELSE reconnectCb
              /\ intentionalDisconnect' = TRUE
              /\ disconnectPending' = TRUE
              /\ lastApi' = [op |-> "disconnect", statusAt |-> deviceStatus,
                             at |-> Len(notifications), inFlight |-> 0]
              /\ UNCHANGED <<port, deviceStatus, notifications>>
         ELSE /\ UNCHANGED reconnectCb
              /\ IF re
                   THEN connectBody(Append(notifications, "Disconnected"),
                                    "Disconnected", portState)
                   ELSE /\ port' = 0
                        /\ updateDeviceStatus("Disconnected")
                        /\ intentionalDisconnect' = TRUE
                        /\ disconnectPending' = FALSE
                        /\ lastApi' = [op |-> "disconnect",
                                       statusAt |-> deviceStatus,
                                       at |-> Len(notifications),
                                       inFlight |-> IF port # 0 /\ portState[port] = "opening"
                                                      THEN port ELSE 0]
                        /\ UNCHANGED portState
    /\ UNCHANGED <<timers, writes, heartbeats, confirmed, dataVars>>

disconnect == disconnectCall(FALSE)

reconnect == disconnectCall(TRUE)

(***************************************************************************)
(* handleUnexpectedDisconnect(), lines 143-147: arm the debounce timer     *)
(* unless a disconnect is already pending.                                 *)
(***************************************************************************)
handleUnexpectedDisconnect ==
    IF disconnectPending
      THEN UNCHANGED <<disconnectPending, timers>>
      ELSE /\ disconnectPending' = TRUE
           /\ timers' = timers + 1

(***************************************************************************)
(* The callback of port.close(), lines 119-128.  A close that succeeds     *)
(* makes the handle emit 'close' (lines 72-78) before the callback runs;   *)
(* one that fails leaves the handle open and emits nothing.                *)
(***************************************************************************)
closeCallback(p, ok) ==
    /\ portState[p] = "closing"
    /\ reconnectCb' = reconnectCb \ {p}
    /\ timers' = IF ok /\ ~intentionalDisconnect /\ ~disconnectPending
                   THEN timers + 1 ELSE timers
    /\ LET states == [portState EXCEPT ![p] = IF ok THEN "closed" ELSE "open"] IN
       IF p \in reconnectCb
         THEN connectBody(Append(notifications, "Disconnected"), "Disconnected",
                          states)
         ELSE /\ portState' = states
              /\ port' = 0
              /\ updateDeviceStatus("Disconnected")
              /\ disconnectPending' = FALSE
              /\ UNCHANGED <<intentionalDisconnect, lastApi>>
    /\ budget' = [budget EXCEPT !.connects = IF p \in reconnectCb THEN @ - 1 ELSE @]
    /\ UNCHANGED <<heartbeatInterval, writes, heartbeats, confirmed, dataVars>>

(***************************************************************************)
(* The handle's events.  A handle that was opened may emit 'error' at any  *)
(* time, and 'close' while the program has not closed it; after the event  *)
(* the handle reports itself open or not (a lost link, or a spurious       *)
(* event of a link that is, or is again, alive).                           *)
(***************************************************************************)
Alive == {"open", "lost"}

\* port.on('error'), lines 64-70
errorEvent(p, after) ==
    /\ budget.signals > 0
    /\ portState[p] \in {"open", "lost", "closing", "closed"}
    /\ after \in (IF portState[p] \in Alive THEN Alive ELSE {portState[p]})
    /\ budget' = [budget EXCEPT !.signals = @ - 1]
    /\ portState' = [portState EXCEPT ![p] = after]
    /\ IF ~disconnectPending /\ ~(port # 0 /\ portState'[port] = "open")
         THEN handleUnexpectedDisconnect
         ELSE UNCHANGED <<disconnectPending, timers>>
    /\ UNCHANGED <<deviceStatus, port, intentionalDisconnect, heartbeatInterval,
                   reconnectCb, writes, notifications, heartbeats, lastApi,
                   confirmed, dataVars>>

\* port.on('close'), lines 72-78
closeEvent(p, after) ==
    /\ budget.signals > 0
    /\ portState[p] \in Alive
    /\ after \in Alive
    /\ budget' = [budget EXCEPT !.signals = @ - 1]
    /\ portState' = [portState EXCEPT ![p] = after]
    /\ IF ~intentionalDisconnect /\ ~disconnectPending
         THEN handleUnexpectedDisconnect
         ELSE UNCHANGED <<disconnectPending, timers>>
    /\ UNCHANGED <<deviceStatus, port, intentionalDisconnect, heartbeatInterval,
                   reconnectCb, writes, notifications, heartbeats, lastApi,
                   confirmed, dataVars>>

(***************************************************************************)
(* The debounce timer's callback, lines 148-159.                           *)
(***************************************************************************)
debounceFire ==
    /\ timers > 0
    /\ timers' = timers - 1
    /\ IF ~isOpen(port)
         THEN /\ updateDeviceStatus("Disconnected")
              /\ heartbeatInterval' = FALSE         \* stopHeartbeat()
              /\ confirmed' = confirmed + 1
              /\ UNCHANGED disconnectPending
         ELSE /\ disconnectPending' = FALSE
              /\ UNCHANGED <<deviceStatus, notifications, heartbeatInterval,
                             confirmed>>
    /\ UNCHANGED <<port, intentionalDisconnect, portState, reconnectCb, writes,
                   heartbeats, lastApi, budget, dataVars>>

(***************************************************************************)
(* The heartbeat timer's callback, lines 289-293: it invokes heartbeat()   *)
(* while the interval is set.                                              *)
(***************************************************************************)
heartbeatTick ==
    /\ heartbeatInterval
    /\ budget.ticks > 0
    /\ budget' = [budget EXCEPT !.ticks = @ - 1]
    /\ heartbeats' = heartbeats + 1
    /\ UNCHANGED <<deviceStatus, port, disconnectPending, intentionalDisconnect,
                   heartbeatInterval, portState, reconnectCb, timers, writes,
                   notifications, lastApi, confirmed, dataVars>>

(***************************************************************************)
(* writeToRadio(), lines 180-208.  A call is refused when there is no open *)
(* handle; otherwise the frame goes to port.write at once.  The write      *)
(* callback rejects on an error and else calls this.port.drain, which      *)
(* throws when this.port is null by then; the drain callback resolves,     *)
(* with or without an error.                                               *)
(***************************************************************************)
writeToRadio(data) ==
    /\ budget.writes > 0
    /\ budget' = [budget EXCEPT !.writes = @ - 1]
    /\ writes' = Append(writes,
         IF port = 0 \/ ~isOpen(port)
           THEN [data |-> data, statusAt |-> deviceStatus, on |-> 0,
                 frame |-> <<>>, stage |-> "rejected", drainErr |-> FALSE]
           ELSE [data |-> data, statusAt |-> deviceStatus, on |-> port,
                 frame |-> EncodeFrame(data), stage |-> "write",
                 drainErr |-> FALSE])
    /\ UNCHANGED <<deviceStatus, port, disconnectPending, intentionalDisconnect,
                   heartbeatInterval, portState, reconnectCb, timers,
                   notifications, heartbeats, lastApi,
                   confirmed, dataVars>>

\* the callback of port.write, lines 194-206; a handle completes its writes
\* in the order it was given them
writeCallback(i, ok) ==
    /\ i \in 1..Len(writes)
    /\ writes[i].stage = "write"
    /\ \A j \in 1..(i - 1) : ~(writes[j].stage = "write" /\ writes[j].on = writes[i].on)
    /\ writes' = [writes EXCEPT ![i].stage =
                    IF ~ok THEN "failed"
                    ELSE IF port = 0 THEN "threw"
                    ELSE "drain"]
    /\ UNCHANGED <<deviceStatus, port, disconnectPending, intentionalDisconnect,
                   heartbeatInterval, portState, reconnectCb, timers,
                   notifications, heartbeats, lastApi, budget,
                   confirmed, dataVars>>

\* the callback of port.drain, lines 200-205
drainCallback(i, ok) ==
    /\ i \in 1..Len(writes)
    /\ writes[i].stage = "drain"
    /\ writes' = [writes EXCEPT ![i].stage = "resolved", ![i].drainErr = ~ok]
    /\ UNCHANGED <<deviceStatus, port, disconnectPending, intentionalDisconnect,
                   heartbeatInterval, portState, reconnectCb, timers,
                   notifications, heartbeats, lastApi, budget,
                   confirmed, dataVars>>

(***************************************************************************)
(* handleIncomingData(), lines 213-268, and findMagicBytes(), 273-281.     *)
(***************************************************************************)
\* a scan that looks for the first magic byte alone
findMagicByte1(buf) ==
    LET hits == {i \in 1..(Len(buf) - 1) : buf[i] = SERIAL_MAGIC_BYTE1}
    IN  IF hits = {} THEN -1
        ELSE (CHOOSE i \in hits : \A j \in hits : i <= j) - 1

\* the index (from 0) of the first 0x94 0xc3 in the buffer, -1 if none
findMagicBytes(buf) ==
    LET hits == {i \in 1..(Len(buf) - 1) :
                    buf[i] = SERIAL_MAGIC_BYTE1 /\ buf[i + 1] = SERIAL_MAGIC_BYTE2}
    IN  IF hits = {} THEN -1
        ELSE (CHOOSE i \in hits : \A j \in hits : i <= j) - 1

\* a parser that takes at most one frame out of the buffer per call
parseFramesOnce(buf, out) ==
    LET magicIndex == findMagicBytes(buf)
        b == IF magicIndex > 0 THEN SubSeq(buf, magicIndex + 1, Len(buf)) ELSE buf
    IN  IF Len(buf) < 4 THEN [buf |-> buf, out |-> out]
        ELSE IF magicIndex = -1
          THEN [buf |-> IF Len(buf) > 1 THEN <<buf[Len(buf)]>> ELSE buf, out |-> out]
        ELSE IF Len(b) < 4 \/ Len(b) < 4 + b[3] * 256 + b[4]
          THEN [buf |-> b, out |-> out]
        ELSE [buf |-> SubSeq(b, 4 + b[3] * 256 + b[4] + 1, Len(b)),
              out |-> Append(out, SubSeq(b, 5, 4 + b[3] * 256 + b[4]))]

\* a loop without the try/catch around handleFromRadio: an error the handler
\* raises ends the call
RECURSIVE parseFramesUncaught(_, _)
parseFramesUncaught(buf, out) ==
    IF Len(buf) < 4 THEN [buf |-> buf, out |-> out]
    ELSE LET magicIndex == findMagicBytes(buf) IN
         IF magicIndex = -1
           THEN [buf |-> IF Len(buf) > 1 THEN <<buf[Len(buf)]>> ELSE buf,
                 out |-> out]
           ELSE LET b == IF magicIndex > 0
                           THEN SubSeq(buf, magicIndex + 1, Len(buf)) ELSE buf
                    payloadLength == b[3] * 256 + b[4]
                    payload == SubSeq(b, 5, 4 + payloadLength)
                    rest == SubSeq(b, 4 + payloadLength + 1, Len(b))
                IN  IF Len(b) < 4 THEN [buf |-> b, out |-> out]
                    ELSE IF Len(b) < 4 + payloadLength
                           THEN [buf |-> b, out |-> out]
                    ELSE IF payload \in peer.throwsOn
                           THEN [buf |-> rest, out |-> Append(out, payload)]
                    ELSE parseFramesUncaught(rest, Append(out, payload))

\* a loop that reads the payload length from the low length byte alone
RECURSIVE parseFramesLowByte(_, _)
parseFramesLowByte(buf, out) ==
    IF Len(buf) < 4 THEN [buf |-> buf, out |-> out]
    ELSE LET magicIndex == findMagicBytes(buf) IN
         IF magicIndex = -1
           THEN [buf |-> IF Len(buf) > 1 THEN <<buf[Len(buf)]>> ELSE buf,
                 out |-> out]
           ELSE LET b == IF magicIndex > 0
                           THEN SubSeq(buf, magicIndex + 1, Len(buf)) ELSE buf
                    payloadLength == b[4]
                IN  IF Len(b) < 4 THEN [buf |-> b, out |-> out]
                    ELSE IF Len(b) < 4 + payloadLength
                           THEN [buf |-> b, out |-> out]
                    ELSE parseFramesLowByte(
                             SubSeq(b, 4 + payloadLength + 1, Len(b)),
                             Append(out, SubSeq(b, 5, 4 + payloadLength)))

\* a loop that keeps a buffer without magic bytes as it is
RECURSIVE parseFramesKeepAll(_, _)
parseFramesKeepAll(buf, out) ==
    IF Len(buf) < 4 THEN [buf |-> buf, out |-> out]
    ELSE LET magicIndex == findMagicBytes(buf) IN
         IF magicIndex = -1
           THEN [buf |-> buf, out |-> out]
           ELSE LET b == IF magicIndex > 0
                           THEN SubSeq(buf, magicIndex + 1, Len(buf)) ELSE buf
                    payloadLength == b[3] * 256 + b[4]
                IN  IF Len(b) < 4 THEN [buf |-> b, out |-> out]
                    ELSE IF Len(b) < 4 + payloadLength
                           THEN [buf |-> b, out |-> out]
                    ELSE parseFramesKeepAll(
                             SubSeq(b, 4 + payloadLength + 1, Len(b)),
                             Append(out, SubSeq(b, 5, 4 + payloadLength)))

\* the while loop, lines 218-261: buf is the buffer, out the payloads passed
\* to handleFromRadio so far in this call.  The call is inside try/catch
\* (lines 256-260): an error the handler raises is logged and the loop goes
\* on with the frame already taken out of the buffer.
RECURSIVE parseFrames(_, _)
parseFrames(buf, out) ==
    IF Len(buf) < 4 THEN [buf |-> buf, out |-> out]
    ELSE LET magicIndex == findMagicBytes(buf) IN
         IF magicIndex = -1
           THEN [buf |-> IF Len(buf) > 1 THEN <<buf[Len(buf)]>> ELSE buf,
                 out |-> out]
           ELSE LET b == IF magicIndex > 0
                           THEN SubSeq(buf, magicIndex + 1, Len(buf)) ELSE buf
                    payloadLength == b[3] * 256 + b[4]
                IN  IF Len(b) < 4 THEN [buf |-> b, out |-> out]
                    ELSE IF Len(b) < 4 + payloadLength
                           THEN [buf |-> b, out |-> out]
                    ELSE parseFrames(SubSeq(b, 4 + payloadLength + 1, Len(b)),
                                     Append(out, SubSeq(b, 5, 4 + payloadLength)))

\* a handler that never clears the buffer
handleIncomingDataNoCap(buf, data) ==
    LET r == parseFrames(buf \o data, <<>>)
    IN  [buf |-> r.buf, out |-> r.out, cleared |-> FALSE]

\* the whole handler: append, parse, then clear a buffer grown past the cap
handleIncomingData(buf, data) ==
    LET r == parseFrames(buf \o data, <<>>)
        over == Len(r.buf) > MaxBuffer
    IN  [buf |-> IF over THEN <<>> ELSE r.buf, out |-> r.out, cleared |-> over]

(***************************************************************************)
(* What the peer sends.  A stream is the frames of some payloads, in one   *)
(* of two shapes: frames only, or a frame, then a header that announces a  *)
(* payload longer than the buffer cap and filler bytes that never complete *)
(* it, then a last frame.                                                  *)
(***************************************************************************)
\* frames in a stream
MaxFrames == 2
\* payload bytes over all frames of a stream
MaxPayloadBytes == 3
\* bytes in one small 'data' event
MaxChunk == 4

\* 'data' events of a run: enough to receive every small stream byte by byte
MaxFeeds == 4 * (MaxFrames + 1) + MaxPayloadBytes + 1

\* payload bytes: the two magic bytes and an ordinary one
PayloadBytes == {SERIAL_MAGIC_BYTE1, SERIAL_MAGIC_BYTE2, 1}

RECURSIVE SeqsOf(_, _)
SeqsOf(S, n) ==
    IF n = 0 THEN {<<>>}
    ELSE LET shorter == SeqsOf(S, n - 1) IN
         shorter \cup {Append(q, x) : q \in {t \in shorter : Len(t) = n - 1}, x \in S}

SmallPayloads == SeqsOf(PayloadBytes, MaxPayloadBytes)

\* a payload of the greatest length a frame can carry, magic bytes inside
LongPayload == [i \in 1..MaxEncodable |->
                  IF i = 100 THEN SERIAL_MAGIC_BYTE1
                  ELSE IF i = 101 THEN SERIAL_MAGIC_BYTE2 ELSE 7]

RECURSIVE TotalLen(_)
TotalLen(ps) == IF ps = <<>> THEN 0 ELSE Len(Head(ps)) + TotalLen(Tail(ps))

RECURSIVE Frames(_)
Frames(ps) == IF ps = <<>> THEN <<>> ELSE EncodeFrame(Head(ps)) \o Frames(Tail(ps))

\* the lists of at most n small payloads with at most k bytes in all
RECURSIVE SentOf(_, _)
SentOf(n, k) ==
    IF n = 0 THEN {<<>>}
    ELSE {<<>>} \cup
         UNION {{<<p>> \o rest : rest \in SentOf(n - 1, k - Len(p))} :
                   p \in {q \in SmallPayloads : Len(q) <= k}}

SentLists ==
    SentOf(MaxFrames, MaxPayloadBytes)
    \cup {<<LongPayload>>, <<ShortPayload, LongPayload>>}

\* a header announcing 0x1100 = 4352 payload bytes, and filler that is not magic
HugeHeader == <<SERIAL_MAGIC_BYTE1, SERIAL_MAGIC_BYTE2, 17, 0>>
Filler == [i \in 1..MaxBuffer |-> 0]
BulkLen == MaxBuffer \div 4

FramePeers ==
    {[kind |-> "frames", sent |-> ps, stream |-> Frames(ps), tailAt |-> 0,
      throwsOn |-> {}] :
        ps \in SentLists}

OverflowPeers ==
    {[kind |-> "overflow", sent |-> pre \o <<ShortPayload>>,
      stream |-> Frames(pre) \o HugeHeader \o Filler \o EncodeFrame(ShortPayload),
      tailAt |-> Len(Frames(pre)) + 4 + MaxBuffer, throwsOn |-> {}] :
        pre \in {<<>>, <<ShortPayload>>}}

\* frames of short payloads, on some of which the external layer's handler
\* raises an error
ThrowPayloads == {<<>>, <<1>>, <<SERIAL_MAGIC_BYTE1, SERIAL_MAGIC_BYTE2>>}

ThrowingPeers ==
    {[kind |-> "throwing", sent |-> ps, stream |-> Frames(ps), tailAt |-> 0,
      throwsOn |-> {bad}] :
        ps \in SeqsOf(ThrowPayloads, MaxFrames) \ {<<>>}, bad \in ThrowPayloads}

\* bytes of noise before a frame
MaxGarbage == 4

\* noise: bytes without the magic sequence in them, a few or more than the
\* buffer cap, ending in the first magic byte or not
HasMagic(g) ==
    \E i \in 1..(Len(g) - 1) :
        g[i] = SERIAL_MAGIC_BYTE1 /\ g[i + 1] = SERIAL_MAGIC_BYTE2

ShortGarbage ==
    {g \in SeqsOf(PayloadBytes, MaxGarbage) : g # <<>> /\ ~HasMagic(g)}

Garbage == ShortGarbage \cup {Filler \o <<SERIAL_MAGIC_BYTE1>>}

GarbagePeers ==
    {[kind |-> "garbage", sent |-> <<p>>, stream |-> g \o EncodeFrame(p),
      tailAt |-> Len(g), throwsOn |-> {}] :
        g \in Garbage, p \in ThrowPayloads}

\* a peer that sets the reserved byte: one frame whose header carries a
\* 16-bit length, with payload bytes that are not magic bytes
LongLengths == {0, 1, MaxEncodable, MaxEncodable + 1, MaxBuffer - 4,
                MaxBuffer - 3, MaxBuffer - 2, MaxBuffer + MaxEncodable + 1}

LongFrame(L) ==
    <<SERIAL_MAGIC_BYTE1, SERIAL_MAGIC_BYTE2, L \div 256, L % 256>>
    \o [i \in 1..L |-> 7]

LongPeers ==
    {[kind |-> "long", sent |-> <<[i \in 1..L |-> 7]>>, stream |-> LongFrame(L),
      tailAt |-> 0, throwsOn |-> {}] : L \in LongLengths}

\* a peer cut off in the middle of a frame: the bytes of a frame that a
\* first connection received before it ended (a part of the header, or the
\* header and a part of the payload), then, on the next connection, a frame
CutFrame == EncodeFrame(<<1, 1, 1, 1, 1>>)

ResumedPeers ==
    {[kind |-> "resumed", sent |-> <<p>>,
      stream |-> SubSeq(CutFrame, 1, k) \o EncodeFrame(p),
      tailAt |-> k, throwsOn |-> {}] :
        k \in 1..(Len(CutFrame) - 1), p \in ThrowPayloads}

\* sizes of the next 'data' event: a few bytes, a block, or all that is left
\* (of a long frame: one byte, a block, or all that is left)
FeedSizes ==
    {n \in 1..(Len(peer.stream) - pos) :
        \/ n <= (IF peer.kind = "long" THEN 1 ELSE MaxChunk)
        \/ n = BulkLen
        \/ n = Len(peer.stream) - pos}

\* port.on('data'), lines 80-82
dataEvent(n) ==
    LET r == handleIncomingData(receiveBuffer, SubSeq(peer.stream, pos + 1, pos + n))
    IN  /\ feeds < MaxFeeds
        /\ feeds' = feeds + 1
        /\ pos' = pos + n
        /\ receiveBuffer' = r.buf
        /\ delivered' = delivered \o r.out
        /\ clearedAt' = IF r.cleared THEN pos + n ELSE clearedAt
        /\ UNCHANGED <<peer, lifeVars>>

\* port.on('data') of the handle the instance holds, lines 80-82: the first
\* handle carries the bytes the peer sent before it was cut off, a later one
\* the bytes it sent after
connData(n) ==
    /\ isOpen(port)
    /\ IF port = 1 THEN pos + n <= peer.tailAt ELSE pos >= peer.tailAt
    /\ dataEvent(n)

(***************************************************************************)
(* Specifications.  Spec is the connection: every call, callback, event    *)
(* and timer, in any order.  SpecFraming is the receive path: the peer's   *)
(* stream arrives in 'data' events of any sizes.                           *)
(***************************************************************************)
LifeInit ==
    /\ deviceStatus = "Disconnected"
    /\ port = 0
    /\ disconnectPending = FALSE
    /\ intentionalDisconnect = FALSE
    /\ heartbeatInterval = FALSE
    /\ portState = [p \in Ports |-> "none"]
    /\ reconnectCb = {}
    /\ timers = 0
    /\ writes = <<>>
    /\ notifications = <<>>
    /\ heartbeats = 0
    /\ lastApi = NoApi
    /\ confirmed = 0

DataInit ==
    /\ receiveBuffer = <<>>
    /\ delivered = <<>>
    /\ pos = 0
    /\ feeds = 0
    /\ clearedAt = -1

NoPeer == [kind |-> "frames", sent |-> <<>>, stream |-> <<>>, tailAt |-> 0,
           throwsOn |-> {}]

\* what the environment does in a run of the connection
LifeBudget ==
    [connects |-> MaxPorts, disconnects |-> MaxDisconnects, signals |-> MaxSignals,
     ticks |-> MaxTicks, writes |-> 0]

\* ... in a run of a connection that is written to
WriteBudget ==
    [connects |-> MaxWritePorts, disconnects |-> MaxWriteDisconnects,
     signals |-> MaxWriteSignals, ticks |-> 0, writes |-> MaxWrites]

NoBudget ==
    [connects |-> 0, disconnects |-> 0, signals |-> 0, ticks |-> 0, writes |-> 0]

Init == LifeInit /\ DataInit /\ peer = NoPeer /\ budget = LifeBudget

LifeNext ==
    \/ connect
    \/ disconnect
    \/ reconnect
    \/ \E p \in Ports, ok \in BOOLEAN : openCallback(p, ok)
    \/ \E p \in Ports, ok \in BOOLEAN : closeCallback(p, ok)
    \/ \E p \in Ports, after \in Alive \cup {"closing", "closed"} : errorEvent(p, after)
    \/ \E p \in Ports, after \in Alive : closeEvent(p, after)
    \/ debounceFire

Next == LifeNext \/ heartbeatTick

Spec == Init /\ [][Next]_vars

WriteInit == LifeInit /\ DataInit /\ peer = NoPeer /\ budget = WriteBudget

WriteNext ==
    \/ LifeNext
    \/ \E data \in WritePayloads : writeToRadio(data)
    \/ \E i \in 1..MaxWrites, ok \in BOOLEAN : writeCallback(i, ok)
    \/ \E i \in 1..MaxWrites, ok \in BOOLEAN : drainCallback(i, ok)

SpecWrite == WriteInit /\ [][WriteNext]_vars

FramingInit ==
    /\ LifeInit /\ DataInit /\ budget = NoBudget
    /\ peer \in FramePeers \cup OverflowPeers

FramingNext == \E n \in FeedSizes : dataEvent(n)

SpecFraming == FramingInit /\ [][FramingNext]_vars

\* the receive path with an external layer whose handler raises errors
ThrowingInit ==
    /\ LifeInit /\ DataInit /\ budget = NoBudget
    /\ peer \in ThrowingPeers

SpecThrowing == ThrowingInit /\ [][FramingNext]_vars

\* the receive path on a line that carries noise before the frame
GarbageInit ==
    /\ LifeInit /\ DataInit /\ budget = NoBudget
    /\ peer \in GarbagePeers

SpecGarbage == GarbageInit /\ [][FramingNext]_vars

\* the receive path with a peer that uses the 16-bit length
LongInit ==
    /\ LifeInit /\ DataInit /\ budget = NoBudget
    /\ peer \in LongPeers

SpecLong == LongInit /\ [][FramingNext]_vars

\* a connection that receives, is ended and is made again
ResumeBudget ==
    [connects |-> MaxPorts, disconnects |-> MaxWriteDisconnects,
     signals |-> MaxWriteSignals, ticks |-> 0, writes |-> 0]

ResumeInit ==
    /\ LifeInit /\ DataInit /\ budget = ResumeBudget
    /\ peer \in ResumedPeers

ResumeNext ==
    \/ LifeNext
    \/ \E n \in FeedSizes : connData(n)

SpecResume == ResumeInit /\ [][ResumeNext]_vars

\* ... that carries a few bytes of noise before the frame
TrimInit ==
    /\ LifeInit /\ DataInit /\ budget = NoBudget
    /\ peer \in {q \in GarbagePeers : q.tailAt <= MaxGarbage}

SpecTrim == TrimInit /\ [][FramingNext]_vars

(***************************************************************************)
(* The connection.                                                         *)
(***************************************************************************)
\* the statuses reported since the last connect() / disconnect() call began
SinceLastApi == SubSeq(notifications, lastApi.at + 1, Len(notifications))

\* C1: after a disconnect() made while the open of a connect() was in flight,
\* the status is Disconnected and exactly one Disconnected has been reported
\* since the call, whether or not the open has settled and however it did.
C1_DisconnectWhileConnecting ==
    (lastApi.op = "disconnect" /\ lastApi.inFlight # 0)
    => (deviceStatus = "Disconnected" /\ SinceLastApi = <<"Disconnected">>)

\* C2: while Connected, a debounce timer that finds the handle open reports
\* nothing and leaves the status Connected; and once a connect() made from
\* Disconnected has led to Connected, then with no further call the debounce
\* reports Disconnected at most once, whatever error and close signals the
\* handles emit.
C2_DebouncedLoss ==
    /\ []((lastApi.op = "connect" /\ lastApi.statusAt = "Disconnected"
             /\ \E i \in 1..Len(SinceLastApi) : SinceLastApi[i] = "Connected")
            => confirmed <= 1)
    /\ [][(timers' = timers - 1 /\ deviceStatus = "Connected" /\ isOpen(port))
            => (notifications' = notifications /\ deviceStatus' = "Connected")]_vars

\* C3: the keep-alive action is not invoked between a disconnect() call and
\* the next connect() call.
C3_NoHeartbeatAfterDisconnect ==
    [][heartbeats' # heartbeats => lastApi.op # "disconnect"]_vars

\* C6: a connect() made while the status is Connecting or Connected changes
\* neither the handle, the status, the flags nor the heartbeat.
C6_ConnectMisuseRejected ==
    [][(lastApi' # lastApi /\ lastApi'.op = "connect"
           /\ lastApi'.statusAt \in {"Connecting", "Connected"})
         => UNCHANGED <<port, portState, deviceStatus, notifications,
                        disconnectPending, intentionalDisconnect,
                        heartbeatInterval>>]_vars

\* a step that is a disconnect() call (not a reconnect())
IsDisconnectCall ==
    /\ budget'.disconnects = budget.disconnects - 1
    /\ lastApi'.op = "disconnect"
    /\ reconnectCb' = reconnectCb

\* C11: a disconnect() call that follows another disconnect() call, with no
\* connect() between them, reports no status, and unless a close is still in
\* flight it leaves the status Disconnected, no handle and no heartbeat.
C11_DisconnectIdempotent ==
    [][(lastApi.op = "disconnect" /\ IsDisconnectCall)
         => /\ notifications' = notifications
            /\ (\A p \in Ports : portState'[p] # "closing")
                 => (deviceStatus' = "Disconnected" /\ port' = 0
                       /\ ~heartbeatInterval')]_vars

\* C12: the statuses reported form a path of the lifecycle that starts in
\* Disconnected: Connecting is reported only after Disconnected, Connected
\* only after Connecting, and no status is reported twice in a row.
C12_LifecycleOrder ==
    \A i \in 1..Len(notifications) :
        LET prev == IF i = 1 THEN "Disconnected" ELSE notifications[i - 1] IN
        /\ notifications[i] = "Connecting" => prev = "Disconnected"
        /\ notifications[i] = "Connected" => prev = "Connecting"
        /\ i > 1 => notifications[i] # prev

\* the last call was a disconnect() made while Connected, and every handle
\* the instance created has been closed by it or is being closed by it (the
\* call has not resolved and this.port is still that handle)
AfterIntentionalDisconnect ==
    /\ lastApi.op = "disconnect"
    /\ lastApi.statusAt = "Connected"
    /\ \A p \in Ports : portState[p] \in {"none", "failed", "closing", "closed"}
    /\ \A p \in Ports : portState[p] = "closing" => port = p

\* C13: after an intentional disconnect() from Connected and before the next
\* connect(), an 'error' or 'close' event of the handle arms no debounce
\* timer and reports nothing, and no debounce timer reports a further
\* Disconnected.
C13_IntentionalSuppressesSignals ==
    [][AfterIntentionalDisconnect =>
         /\ budget'.signals < budget.signals
              => (timers' = timers /\ notifications' = notifications)
         /\ timers' < timers => notifications' = notifications]_vars

\* C19: a debounce timer armed for an earlier connection reports nothing and
\* tears nothing down in a later one.  While the handle of a connect() made
\* from Disconnected is still opening, and nothing but Connecting has been
\* reported since the call, that handle has emitted no event, so every
\* timer that fires then was armed for an earlier handle.
C19_NoStaleTimerEffect ==
    [][(lastApi.op = "connect" /\ lastApi.statusAt = "Disconnected"
          /\ port # 0 /\ portState[port] = "opening"
          /\ SinceLastApi = <<"Connecting">>
          /\ timers' < timers)
         => UNCHANGED <<deviceStatus, notifications, heartbeatInterval>>]_vars

\* handles that are open or opening
Held == {p \in Ports : portState[p] \in {"open", "opening"}}

\* C20: at most one handle is open or opening, it is the one this.port refers
\* to, and after a disconnect() with no close and no open left in flight no
\* handle is open.
C20_SingleOwnedHandle ==
    /\ Cardinality(Held) <= 1
    /\ \A p \in Held : port = p
    /\ (lastApi.op = "disconnect"
          /\ \A p \in Ports : portState[p] \notin {"opening", "closing"})
       => Held = {}

(***************************************************************************)
(* Writes.                                                                 *)
(***************************************************************************)
InFlight(w) == w.stage \in {"write", "drain"}

\* C7: a frame is handed to the handle only when every earlier write has
\* completed its write and its drain.
C7_WritesSerialized ==
    \A i, j \in 1..Len(writes) :
        (i < j /\ writes[j].on # 0) => ~InFlight(writes[i])

\* C8: a write is refused as not connected exactly when the status at the
\* call is not Connected.
C8_NotConnectedIffStatus ==
    \A i \in 1..Len(writes) :
        (writes[i].stage = "rejected") <=> (writes[i].statusAt # "Connected")

\* C9: no frame is handed to the handle for a payload longer than 255 bytes.
C9_OversizeRejected ==
    \A i \in 1..Len(writes) :
        Len(writes[i].data) > MaxEncodable => writes[i].on = 0

\* C14: a write whose write step or drain step failed has not resolved as a
\* success, and no step of a write changes the status, the flags or the
\* heartbeat.
C14_WriteFailuresSurfaced ==
    /\ [](\A i \in 1..Len(writes) :
             writes[i].drainErr => writes[i].stage # "resolved")
    /\ [][writes' # writes
            => UNCHANGED <<deviceStatus, notifications, disconnectPending,
                           intentionalDisconnect, heartbeatInterval>>]_vars

(***************************************************************************)
(* The receive path.                                                       *)
(***************************************************************************)
IsPrefix(a, b) == Len(a) <= Len(b) /\ a = SubSeq(b, 1, Len(a))

\* C4: a frame built by writeToRadio's framing around a payload of 0 to 255
\* bytes (magic bytes inside it included), received in one 'data' event by
\* an empty buffer, delivers exactly that payload and leaves the buffer empty.
C4_RoundTrip ==
    (peer.kind = "frames" /\ Len(peer.sent) = 1 /\ feeds = 1
        /\ pos = Len(peer.stream))
    => (delivered = peer.sent /\ receiveBuffer = <<>>)

C4_Witness ==
    /\ peer.sent = <<LongPayload>>
    /\ feeds = 1
    /\ pos = Len(peer.stream)
    /\ delivered = <<LongPayload>>

\* C5: however the bytes of N frames are split into 'data' events, what has
\* been delivered and retained after any of them is what one event with all
\* the bytes received so far delivers and retains, and once all bytes are in,
\* the N payloads have been delivered in order.
C5_ChunkInvariance ==
    peer.kind = "frames" =>
        LET whole == handleIncomingData(<<>>, SubSeq(peer.stream, 1, pos)) IN
        /\ delivered = whole.out
        /\ receiveBuffer = whole.buf
        /\ pos = Len(peer.stream) => delivered = peer.sent

C5_Witness ==
    /\ peer.kind = "frames"
    /\ Len(peer.sent) = MaxFrames
    /\ TotalLen(peer.sent) = MaxPayloadBytes
    /\ pos = Len(peer.stream)
    /\ feeds = Len(peer.stream)
    /\ delivered = peer.sent

\* how many of the leading payloads of ps have their whole frame within the
\* first n bytes of the stream
RECURSIVE FramedIn(_, _)
FramedIn(ps, n) ==
    IF ps = <<>> \/ 4 + Len(Head(ps)) > n THEN 0
    ELSE 1 + FramedIn(Tail(ps), n - 4 - Len(Head(ps)))

\* C15: when the external layer's handler raises an error on a payload, the
\* status stays as it was, the payloads delivered after any 'data' event are
\* those of every frame received in full, in order, and the buffer holds
\* the bytes received after the last of them and nothing of a consumed frame.
C15_HandlerErrorAbsorbed ==
    peer.kind = "throwing" =>
        LET k == FramedIn(peer.sent, pos)
            done == SubSeq(peer.sent, 1, k)
        IN  /\ delivered = done
            /\ receiveBuffer = SubSeq(peer.stream, Len(Frames(done)) + 1, pos)
            /\ deviceStatus = "Disconnected" /\ notifications = <<>>

\* the handler raised an error on the first payload, and the later frames of
\* the same 'data' event were delivered
C15_Witness ==
    /\ peer.kind = "throwing"
    /\ Len(peer.sent) = MaxFrames
    /\ peer.sent[1] \in peer.throwsOn
    /\ feeds = 1
    /\ pos = Len(peer.stream)
    /\ delivered = peer.sent

\* C16: noise without a magic sequence before a frame is never delivered, as
\* a payload or inside one: whatever the noise (one ending in 0x94 included)
\* and however the bytes are split into 'data' events, nothing is delivered
\* before the frame is complete, and then exactly its payload is, and the
\* buffer is empty.
C16_GarbageDiscarded ==
    peer.kind = "garbage" =>
        /\ pos < Len(peer.stream) => delivered = <<>>
        /\ pos = Len(peer.stream) => (delivered = peer.sent /\ receiveBuffer = <<>>)

\* noise ending in 0x94 that came in more than one 'data' event and was cut
\* down to its last byte before the frame arrived
C16_Witness ==
    /\ peer.kind = "garbage"
    /\ peer.tailAt = MaxGarbage
    /\ peer.stream[peer.tailAt] = SERIAL_MAGIC_BYTE1
    /\ peer.sent = <<<<SERIAL_MAGIC_BYTE1, SERIAL_MAGIC_BYTE2>>>>
    /\ feeds > 2
    /\ pos = Len(peer.stream)
    /\ delivered = peer.sent

\* the buffer as a 'data' event step accumulates it: the bytes held before
\* and the bytes of the event
Accumulated == receiveBuffer \o SubSeq(peer.stream, pos + 1, pos')

\* C17, as stated: a 'data' event after which the accumulated buffer has 2
\* or more bytes and no magic sequence leaves exactly the last byte in the
\* buffer and delivers nothing.
C17_TrimFromTwo ==
    [][(feeds' = feeds + 1 /\ Len(Accumulated) >= 2 /\ ~HasMagic(Accumulated))
         => (receiveBuffer' = <<Accumulated[Len(Accumulated)]>>
               /\ delivered' = delivered)]_vars

\* C17, amended: a 'data' event after which the accumulated buffer has no
\* magic sequence delivers nothing; with 4 or more bytes it leaves exactly
\* the last byte in the buffer, with fewer it leaves them all.
C17_TrimFromFour ==
    [][(feeds' = feeds + 1 /\ ~HasMagic(Accumulated))
         => /\ delivered' = delivered
            /\ receiveBuffer' = IF Len(Accumulated) >= 4
                                  THEN <<Accumulated[Len(Accumulated)]>>
                                  ELSE Accumulated]_vars

\* noise of four bytes came in one 'data' event and its last byte is held
C17_Witness ==
    /\ peer.kind = "garbage"
    /\ peer.tailAt = 4
    /\ pos = 4
    /\ feeds = 1
    /\ receiveBuffer = <<peer.stream[4]>>
    /\ delivered = <<>>

\* C18, as stated: for a frame whose header carries any 16-bit length L,
\* nothing is delivered while fewer than 4+L bytes have been received, and
\* once all have, the payload of exactly those L bytes has been delivered,
\* however the bytes were split into 'data' events.
C18_AnyLength ==
    peer.kind = "long" =>
        /\ pos < Len(peer.stream) => delivered = <<>>
        /\ pos = Len(peer.stream) => delivered = peer.sent

\* the longest payload an incomplete frame of which never exceeds the cap
MaxSplittable == MaxBuffer - 3

\* C18, amended: nothing is delivered while fewer than 4+L bytes have been
\* received; once all have, the payload has been delivered if L is at most
\* 4093, however the bytes were split; for a longer one it has been
\* delivered if no 'data' event left more than 4096 bytes of the incomplete
\* frame in the buffer, and else the buffer was cleared and it is lost.
C18_LengthUpToCap ==
    peer.kind = "long" =>
        LET L == Len(peer.sent[1]) IN
        /\ pos < Len(peer.stream) => delivered = <<>>
        /\ (pos < Len(peer.stream) /\ clearedAt = -1)
             => receiveBuffer = SubSeq(peer.stream, 1, pos)
        /\ L <= MaxSplittable => clearedAt = -1
        /\ pos = Len(peer.stream)
             => IF clearedAt = -1
                  THEN delivered = peer.sent /\ receiveBuffer = <<>>
                  ELSE delivered = <<>>

\* a payload of 4093 bytes, announced with a non-zero high byte, received in
\* five 'data' events
C18_Witness ==
    /\ peer.kind = "long"
    /\ Len(peer.sent[1]) = MaxSplittable
    /\ peer.stream[3] > 0
    /\ feeds = 5
    /\ pos = Len(peer.stream)
    /\ delivered = peer.sent

\* C21: bytes of a frame left in the buffer by one connection are no part of
\* what is delivered on a later one, and do not delay or suppress it: on a
\* connection made by a connect() from Disconnected, with every earlier
\* handle closed, nothing but the frame received on it is delivered, and once
\* all the bytes of that frame are in, its payload has been.
C21_BufferNotCarriedOver ==
    (peer.kind = "resumed" /\ lastApi.op = "connect"
        /\ lastApi.statusAt = "Disconnected"
        /\ \A p \in Ports \ {port} : portState[p] \in {"none", "closed"})
    => /\ IsPrefix(delivered, peer.sent)
       /\ pos = Len(peer.stream) => delivered = peer.sent

\* C10: the buffer never holds more than 4096 bytes after a 'data' event; an
\* event that leaves more is followed by an empty buffer; nothing but the
\* payloads the peer framed is ever delivered; and a frame received wholly
\* after the clear is delivered.
C10_BufferCap ==
    /\ Len(receiveBuffer) <= MaxBuffer
    /\ (clearedAt = pos) => receiveBuffer = <<>>
    /\ IsPrefix(delivered, peer.sent)
    /\ (peer.kind = "overflow" /\ pos = Len(peer.stream)
          /\ clearedAt >= 0 /\ clearedAt <= peer.tailAt)
       => delivered = peer.sent

C10_Witness ==
    /\ peer.kind = "overflow"
    /\ Len(peer.sent) = 2
    /\ pos = Len(peer.stream)
    /\ clearedAt > MaxBuffer
    /\ clearedAt <= peer.tailAt
    /\ delivered = peer.sent

====
